---- MODULE Spec2Model ----
(***************************************************************************)
(* A model of regtests/testsuite.py, the driver of the templates_parser    *)
(* testsuite: test discovery (filter_list), the cleanup of the result      *)
(* directory, the construction of the discriminant list, the main loop     *)
(* that launches one run-test subprocess per test and collects it, the     *)
(* final report, and the top-level handler of AssertionError.              *)
(*                                                                         *)
(* Paths and file names are sequences of one-character strings, so that    *)
(* substring containment and glob matching are computed, not assumed.      *)
(***************************************************************************)
EXTENDS Integers, Sequences, FiniteSets, TLC

VARIABLES
    pc,            \* position of the driver process in main / __main__
    fs0,           \* the filesystem as it was when the driver started
    tests_glob,    \* what glob('tests/*') returns, in the filesystem's order
    isdir,         \* the paths of tests_glob that are directories
    run_test,      \* options.run_test, the substring filter ("" = <<>>)
    opt_discs,     \* options.discs after the split (<<>> when not given)
    mainloop_jobs, \* options.mainloop_jobs
    test_list,     \* main's test_list
    dir_exists,    \* os.path.exists(result_dir)
    dir_files,     \* names of the entries of result_dir
    cwd_files,     \* names of the entries of the current directory
    written,       \* entries of result_dir written by this run
    results,       \* content of result_dir/results: a sequence of records
    discs,         \* main's discs list
    next_item,     \* MainLoop: index in test_list of the next test to launch
    running,       \* MainLoop: indices of the launched, uncollected tests
    status,        \* exit status of each finished subprocess ("none" before)
    launched,      \* number of times test_build_cmd was called on each test
    collected,     \* number of times collect_result was called on each test
    stdout,        \* lines printed by the driver
    exit_code      \* exit status of the driver process ("none" while alive)

vars == <<pc, fs0, tests_glob, isdir, run_test, opt_discs, mainloop_jobs, test_list,
          dir_exists, dir_files, cwd_files, written, results, discs,
          next_item, running, status, launched, collected, stdout, exit_code>>

----------------------------------------------------------------------------
(* Bounds of the model *)

MaxNameLen == 1
MaxEntries == 2
MaxFilterLen == 2
MaxJobs == 2

NameChars == {"a", "s"}
FilterChars == {"a", "s", "/"}

SeqsUpTo(S, n) == UNION {[1..k -> S] : k \in 0..n}

Range(s) == {s[i] : i \in 1..Len(s)}

NoDup(s) == \A i, j \in 1..Len(s) : s[i] = s[j] => i = j

----------------------------------------------------------------------------
(* Strings of the program *)

TestsPrefix == <<"t", "e", "s", "t", "s", "/">>

ResultsName == <<"r", "e", "s", "u", "l", "t", "s">>
ReportName == <<"r", "e", "p", "o", "r", "t">>
DiscsName == <<"d", "i", "s", "c", "s">>

ExtDiff == <<".", "d", "i", "f", "f">>
ExtExpected == <<".", "e", "x", "p", "e", "c", "t", "e", "d">>
ExtOut == <<".", "o", "u", "t">>
ExtResult == <<".", "r", "e", "s", "u", "l", "t">>

Exts == <<ExtDiff, ExtExpected, ExtOut, ExtResult>>

PlatformTag == "x86_64-linux"
TripletTag == "x86_64-pc-linux-gnu"

----------------------------------------------------------------------------
(* Test discovery: filter_list and the comprehension of main *)

\* Python's `sub in s` on strings: scan the start positions from the left.
RECURSIVE FindFrom(_, _, _)
FindFrom(sub, s, i) ==
    IF i + Len(sub) - 1 > Len(s) THEN FALSE
    ELSE IF SubSeq(s, i, i + Len(sub) - 1) = sub THEN TRUE
    ELSE FindFrom(sub, s, i + 1)

StrIn(sub, s) == FindFrom(sub, s, 1)

\* [test for test in test_list if run_test in test]
RECURSIVE Comprehension(_, _)
Comprehension(lst, f) ==
    IF lst = <<>> THEN <<>>
    ELSE IF StrIn(f, Head(lst))
         THEN <<Head(lst)>> \o Comprehension(Tail(lst), f)
         ELSE Comprehension(Tail(lst), f)

\* A filter that keeps a path only when the filter is its leading part.
RECURSIVE PrefixComprehension(_, _)
PrefixComprehension(lst, f) ==
    IF lst = <<>> THEN <<>>
    ELSE IF Len(f) <= Len(Head(lst)) /\ SubSeq(Head(lst), 1, Len(f)) = f
         THEN <<Head(lst)>> \o PrefixComprehension(Tail(lst), f)
         ELSE PrefixComprehension(Tail(lst), f)

filter_list_prefix(globbed, f) ==
    IF f = <<>> THEN globbed ELSE PrefixComprehension(globbed, f)

\* filter_list(pattern, run_test), given what glob(pattern) returns
filter_list(globbed, f) ==
    IF f = <<>> THEN globbed ELSE Comprehension(globbed, f)

\* [t for t in ... if os.path.isdir(t)]
RECURSIVE OnlyDirs(_, _)
OnlyDirs(lst, dirs) ==
    IF lst = <<>> THEN <<>>
    ELSE IF Head(lst) \in dirs
         THEN <<Head(lst)>> \o OnlyDirs(Tail(lst), dirs)
         ELSE OnlyDirs(Tail(lst), dirs)

----------------------------------------------------------------------------
(* The result directory *)

EndsWith(name, ext) ==
    /\ Len(name) >= Len(ext)
    /\ SubSeq(name, Len(name) - Len(ext) + 1, Len(name)) = ext

\* glob(result_dir + '/*' + ext): the pattern does not start with a dot, so
\* glob leaves out the names that do, and '*' matches any leading part.
Glob1(files, ext) ==
    {n \in files : n # <<>> /\ n[1] # "." /\ EndsWith(n, ext)}

\* for ext in (...): for file in glob(result_dir + '/*' + ext): rm(file, True)
RECURSIVE RmExts(_, _)
RmExts(files, i) ==
    IF i > Len(Exts) THEN files
    ELSE RmExts(files \ Glob1(files, Exts[i]), i + 1)

\* The same loop with the last extension of the tuple forgotten.
RECURSIVE RmExtsButLast(_, _)
RmExtsButLast(files, i) ==
    IF i >= Len(Exts) THEN files
    ELSE RmExtsButLast(files \ Glob1(files, Exts[i]), i + 1)

CleanDirFilesButLast(exists, files) ==
    IF exists THEN RmExtsButLast(files \ {ResultsName, ReportName}, 1)
    ELSE files

\* The entries of result_dir after lines 65-71: rm of results_file and of
\* result_dir + '/report', then the extension loop.
CleanDirFiles(exists, files) ==
    IF exists THEN RmExts(files \ {ResultsName, ReportName}, 1)
    ELSE files

\* The entries of the current directory after lines 65-71: the third name of
\* the tuple is the relative path 'discs'.
CleanCwdFiles(exists, files) ==
    IF exists THEN files \ {DiscsName} ELSE files

\* The content of the results file after lines 65-71.
CleanResults(exists, content) ==
    IF exists THEN <<>> ELSE content

----------------------------------------------------------------------------
(* Initial states: the options parsed and the filesystem before the run *)

MaxTests == 3

TestNames == SeqsUpTo(NameChars, MaxNameLen) \ {<<>>}
TestPaths == {TestsPrefix \o n : n \in TestNames}

\* The lists glob('tests/*') can return: distinct paths, in any order.
GlobLists == {s \in SeqsUpTo(TestPaths, MaxEntries) : NoDup(s)}

Filters == SeqsUpTo(FilterChars, MaxFilterLen)

\* tests/a, tests/aa, ...: the first k of them
RunPath(i) == TestsPrefix \o [j \in 1..i |-> "a"]
RunList(k) == [i \in 1..k |-> RunPath(i)]

\* Names an existing result directory may hold before the run.
ArtifactDiff == <<"a">> \o ExtDiff
ArtifactExpected == <<"a">> \o ExtExpected
ArtifactOut == <<"a">> \o ExtOut
ArtifactResult == <<"a">> \o ExtResult
HiddenOut == <<".", "s">> \o ExtOut
OutInside == <<"a">> \o ExtOut \o <<".", "t">>
NotesName == <<"n", "o", "t", "e", "s">>

DirNames == {ResultsName, ReportName, DiscsName, ArtifactDiff,
             ArtifactExpected, ArtifactOut, ArtifactResult, HiddenOut,
             OutInside, NotesName}
CwdNames == {DiscsName, NotesName}

\* A record left in the results file by an earlier run.
StaleRecord == [test |-> TestsPrefix \o <<"o", "l", "d">>, status |-> 1]

DiscChoices == {<<>>, <<"foo">>, <<"foo", "bar">>}

InitWith(Globs, Fs, Jobs, Discs) ==
    /\ pc = "start"
    /\ \E g \in Globs :
          /\ tests_glob = g.list
          /\ isdir = g.dirs
          /\ run_test = g.filter
    /\ \E f \in Fs :
          /\ fs0 = f
          /\ dir_exists = f.exists
          /\ dir_files = f.files
          /\ cwd_files = f.cwd
          /\ results = IF ResultsName \in f.files THEN <<StaleRecord>> ELSE <<>>
    /\ mainloop_jobs \in Jobs
    /\ opt_discs \in Discs
    /\ test_list = <<>>
    /\ written = {}
    /\ discs = <<>>
    /\ next_item = 1
    /\ running = {}
    /\ status = <<>>
    /\ launched = <<>>
    /\ collected = <<>>
    /\ stdout = <<>>
    /\ exit_code = -1

\* Every directory content over DirNames, with the directory absent too.
AllFs ==
    {[exists |-> TRUE, files |-> F, cwd |-> C] :
        F \in SUBSET DirNames, C \in SUBSET CwdNames}
    \cup {[exists |-> FALSE, files |-> {}, cwd |-> C] : C \in SUBSET CwdNames}

FewFs ==
    {[exists |-> FALSE, files |-> {}, cwd |-> {}],
     [exists |-> TRUE, files |-> {}, cwd |-> {DiscsName}],
     [exists |-> TRUE, files |-> {ResultsName, DiscsName, ArtifactOut},
      cwd |-> {}]}

AllGlobs ==
    UNION {{[list |-> l, dirs |-> d, filter |-> f] :
               d \in SUBSET Range(l), f \in Filters} : l \in GlobLists}

\* Up to MaxTests test directories, one plain file among them, no filter.
RunGlobs ==
    {[list |-> RunList(k), dirs |-> Range(RunList(k)), filter |-> <<>>] :
        k \in 0..MaxTests}
    \cup {[list |-> RunList(2), dirs |-> {RunPath(1)}, filter |-> <<"a">>]}

Init == InitWith(RunGlobs, FewFs, 1..MaxJobs, DiscChoices)

InitDiscover == InitWith(AllGlobs, FewFs, {1}, {<<>>})

FewGlobs == {g \in RunGlobs : Len(g.list) <= 1}

InitClean == InitWith(FewGlobs, AllFs, {1}, {<<>>})

----------------------------------------------------------------------------
(* The steps of main *)

Tests == 1..Len(test_list)

\* lines 58-59
Discover ==
    /\ pc = "start"
    /\ test_list' = OnlyDirs(filter_list(tests_glob, run_test), isdir)
    /\ pc' = "discovered"
    /\ UNCHANGED <<fs0, tests_glob, isdir, run_test, opt_discs, mainloop_jobs,
                   dir_exists, dir_files, cwd_files, written, results, discs,
                   next_item, running, status, launched, collected, stdout,
                   exit_code>>

\* lines 62-71: the removals when the directory exists, then mkdir
Clean ==
    /\ pc = "discovered"
    /\ dir_files' = CleanDirFiles(dir_exists, dir_files)
    /\ cwd_files' = CleanCwdFiles(dir_exists, cwd_files)
    /\ results' = CleanResults(dir_exists, results)
    /\ dir_exists' = TRUE
    /\ pc' = "cleaned"
    /\ UNCHANGED <<fs0, tests_glob, isdir, run_test, opt_discs, mainloop_jobs,
                   test_list, written, discs, next_item, running, status,
                   launched, collected, stdout, exit_code>>

\* lines 73-79: discs = ['ALL']; three appends; += options.discs
DiscsList == <<"ALL">> \o <<"ALL">> \o <<PlatformTag>> \o <<TripletTag>>
             \o opt_discs

\* The same step with lines 104-105 moved before the call of MainLoop.
BuildDiscsAndWrite ==
    /\ pc = "cleaned"
    /\ discs' = DiscsList
    /\ next_item' = 1
    /\ running' = {}
    /\ status' = [i \in Tests |-> -1]
    /\ launched' = [i \in Tests |-> 0]
    /\ collected' = [i \in Tests |-> 0]
    /\ dir_files' = dir_files \cup {DiscsName}
    /\ written' = written \cup {DiscsName}
    /\ pc' = "running"
    /\ UNCHANGED <<fs0, tests_glob, isdir, run_test, opt_discs, mainloop_jobs,
                   test_list, dir_exists, cwd_files, results, stdout,
                   exit_code>>

\* lines 73-79 and the entry into MainLoop (line 101)
BuildDiscs ==
    /\ pc = "cleaned"
    /\ discs' = DiscsList
    /\ next_item' = 1
    /\ running' = {}
    /\ status' = [i \in Tests |-> -1]
    /\ launched' = [i \in Tests |-> 0]
    /\ collected' = [i \in Tests |-> 0]
    /\ pc' = "running"
    /\ UNCHANGED <<fs0, tests_glob, isdir, run_test, opt_discs, mainloop_jobs,
                   test_list, dir_exists, dir_files, cwd_files, written,
                   results, stdout, exit_code>>

\* line 101: the fourth argument of MainLoop, one more than asked for
ParallelismPlusOne == mainloop_jobs + 1

\* line 101: the fourth argument of MainLoop
Parallelism == mainloop_jobs

\* MainLoop starts a job only while fewer than `parallelism` are running.
SlotFree == Cardinality(running) < Parallelism

\* A main loop that starts the same test again instead of moving on.
LaunchAgain ==
    /\ pc = "running"
    /\ next_item <= Len(test_list)
    /\ SlotFree
    /\ running' = running \cup {next_item}
    /\ launched' = [launched EXCEPT ![next_item] = @ + 1]
    /\ status' = [status EXCEPT ![next_item] = -1]
    /\ next_item' = IF launched[next_item] >= 1 THEN next_item + 1
                    ELSE next_item
    /\ UNCHANGED <<pc, fs0, tests_glob, isdir, run_test, opt_discs,
                   mainloop_jobs, test_list, dir_exists, dir_files, cwd_files,
                   written, results, discs, collected, stdout, exit_code>>

\* MainLoop calls test_build_cmd on the next test of the list (lines 81-96):
\* the subprocess is started in the background.
Launch ==
    /\ pc = "running"
    /\ next_item <= Len(test_list)
    /\ SlotFree
    /\ running' = running \cup {next_item}
    /\ launched' = [launched EXCEPT ![next_item] = @ + 1]
    /\ next_item' = next_item + 1
    /\ UNCHANGED <<pc, fs0, tests_glob, isdir, run_test, opt_discs, mainloop_jobs,
                   test_list, dir_exists, dir_files, cwd_files, written,
                   results, discs, status, collected, stdout, exit_code>>

\* A run-test subprocess ends, with a zero or a nonzero exit status.
Finish(i, st) ==
    /\ pc = "running"
    /\ i \in running
    /\ status[i] = -1
    /\ status' = [status EXCEPT ![i] = st]
    /\ UNCHANGED <<pc, fs0, tests_glob, isdir, run_test, opt_discs, mainloop_jobs,
                   test_list, dir_exists, dir_files, cwd_files, written,
                   results, discs, next_item, running, launched, collected,
                   stdout, exit_code>>

\* A collector that lets a nonzero exit status end the driver.
CollectOrAbort(i) ==
    /\ pc = "running"
    /\ i \in running
    /\ status[i] # -1
    /\ results' = Append(results, [test |-> test_list[i], status |-> status[i]])
    /\ dir_files' = dir_files \cup {ResultsName}
    /\ written' = written \cup {ResultsName}
    /\ running' = running \ {i}
    /\ collected' = [collected EXCEPT ![i] = @ + 1]
    /\ pc' = IF status[i] = 0 THEN pc ELSE "aborted"
    /\ UNCHANGED <<fs0, tests_glob, isdir, run_test, opt_discs, mainloop_jobs,
                   test_list, dir_exists, cwd_files, discs, next_item, status,
                   launched, stdout, exit_code>>

\* MainLoop hands a finished subprocess to collect_result (lines 98-101),
\* which appends one record to results_file, and frees its slot.
Collect(i) ==
    /\ pc = "running"
    /\ i \in running
    /\ status[i] # -1
    /\ results' = Append(results, [test |-> test_list[i], status |-> status[i]])
    /\ dir_files' = dir_files \cup {ResultsName}
    /\ written' = written \cup {ResultsName}
    /\ running' = running \ {i}
    /\ collected' = [collected EXCEPT ![i] = @ + 1]
    /\ UNCHANGED <<pc, fs0, tests_glob, isdir, run_test, opt_discs, mainloop_jobs,
                   test_list, dir_exists, cwd_files, discs, next_item, status,
                   launched, stdout, exit_code>>

\* MainLoop returns once every test was launched and collected.
AllCollected == next_item > Len(test_list) /\ running = {}

MainLoopReturns ==
    /\ pc = "running"
    /\ AllCollected
    /\ pc' = "report"
    /\ UNCHANGED <<fs0, tests_glob, isdir, run_test, opt_discs, mainloop_jobs,
                   test_list, dir_exists, dir_files, cwd_files, written,
                   results, discs, next_item, running, status, launched,
                   collected, stdout, exit_code>>

\* lines 104-105
WriteDiscs ==
    /\ pc = "report"
    /\ dir_files' = dir_files \cup {DiscsName}
    /\ written' = written \cup {DiscsName}
    /\ pc' = "discs_written"
    /\ UNCHANGED <<fs0, tests_glob, isdir, run_test, opt_discs, mainloop_jobs,
                   test_list, dir_exists, cwd_files, results, discs, next_item,
                   running, status, launched, collected, stdout, exit_code>>

\* lines 106-107
WriteReport ==
    /\ pc = "discs_written"
    /\ dir_files' = dir_files \cup {ReportName}
    /\ written' = written \cup {ReportName}
    /\ pc' = "done"
    /\ UNCHANGED <<fs0, tests_glob, isdir, run_test, opt_discs, mainloop_jobs,
                   test_list, dir_exists, cwd_files, results, discs, next_item,
                   running, status, launched, collected, stdout, exit_code>>

\* line 147: main returns and the interpreter ends normally
ExitNormally ==
    /\ pc = "done"
    /\ pc' = "exited"
    /\ exit_code' = 0
    /\ UNCHANGED <<fs0, tests_glob, isdir, run_test, opt_discs, mainloop_jobs,
                   test_list, dir_exists, dir_files, cwd_files, written,
                   results, discs, next_item, running, status, launched,
                   collected, stdout>>

InMain == pc \in {"start", "discovered", "cleaned", "running", "report",
                  "discs_written"}

\* An AssertionError leaves main (line 147) from any of its steps.
AssertionRaised ==
    /\ InMain
    /\ pc' = "raised"
    /\ UNCHANGED <<fs0, tests_glob, isdir, run_test, opt_discs, mainloop_jobs,
                   test_list, dir_exists, dir_files, cwd_files, written,
                   results, discs, next_item, running, status, launched,
                   collected, stdout, exit_code>>

\* The status the interpreter ends with after the handler of line 148-149
\* has run: the exception was handled and the script falls off its end.
HandlerExitCode == 0

\* lines 148-149: print 'ERROR: %s' % e, then the end of the script
CatchAssertion ==
    /\ pc = "raised"
    /\ stdout' = Append(stdout, [prefix |-> "ERROR: ", msg |-> "e"])
    /\ exit_code' = HandlerExitCode
    /\ pc' = "exited"
    /\ UNCHANGED <<fs0, tests_glob, isdir, run_test, opt_discs, mainloop_jobs,
                   test_list, dir_exists, dir_files, cwd_files, written,
                   results, discs, next_item, running, status, launched,
                   collected>>

Next ==
    \/ Discover
    \/ Clean
    \/ BuildDiscs
    \/ Launch
    \/ \E i \in Tests, st \in {0, 1} : Finish(i, st)
    \/ \E i \in Tests : Collect(i)
    \/ MainLoopReturns
    \/ WriteDiscs
    \/ WriteReport
    \/ ExitNormally

NextAssert == Next \/ AssertionRaised \/ CatchAssertion

Spec == Init /\ [][Next]_vars

SpecDiscover == InitDiscover /\ [][Next]_vars

SpecClean == InitClean /\ [][Next]_vars

SpecAssert == Init /\ [][NextAssert]_vars

\* The driver takes its next step whenever it has one, and every launched
\* subprocess ends.
Fairness ==
    /\ WF_vars(Discover) /\ WF_vars(Clean) /\ WF_vars(BuildDiscs)
    /\ WF_vars(Launch)
    /\ WF_vars(\E i \in Tests, st \in {0, 1} : Finish(i, st))
    /\ WF_vars(\E i \in Tests : Collect(i))
    /\ WF_vars(MainLoopReturns) /\ WF_vars(WriteDiscs)
    /\ WF_vars(WriteReport) /\ WF_vars(ExitNormally)

LiveSpec == Init /\ [][Next]_vars /\ Fairness

----------------------------------------------------------------------------
(* Properties *)

\* f occurs in p at some position
Contains(p, f) ==
    \E i \in 1..(Len(p) - Len(f) + 1) : SubSeq(p, i, i + Len(f) - 1) = f

\* r holds elements of s in the order s has them
InOrderOf(r, s) ==
    \A i, j \in 1..Len(r) :
        i < j => \E k, l \in 1..Len(s) : k < l /\ s[k] = r[i] /\ s[l] = r[j]

CountOf(s, x) == Cardinality({i \in 1..Len(s) : s[i] = x})

HasArtifactExt(n) == \E i \in 1..Len(Exts) : EndsWith(n, Exts[i])

\* the files of the result directory the cleanup is described to remove
Targeted(n) == n \in {ResultsName, ReportName, DiscsName} \/ HasArtifactExt(n)

AfterCleanup == pc \in {"cleaned", "running", "report", "discs_written",
                        "done", "exited"}

\* C1: filter_list returns exactly the globbed paths that contain the filter
\* (all of them, unchanged, when the filter is empty), none added, dropped
\* or duplicated, in the order of the glob; main's test_list is the
\* directories among them.
C1_FilterExact ==
    pc # "start" =>
        LET r == filter_list(tests_glob, run_test) IN
        /\ NoDup(r)
        /\ Range(r) = {p \in Range(tests_glob) :
                          run_test = <<>> \/ Contains(p, run_test)}
        /\ InOrderOf(r, tests_glob)
        /\ run_test = <<>> => r = tests_glob
        /\ NoDup(test_list)
        /\ Range(test_list) = Range(r) \cap isdir

\* C1 witness: a non-empty filter that keeps one directory, as an inner
\* part of its path, and drops another.
C1_Witness ==
    /\ pc = "discovered"
    /\ run_test # <<>>
    /\ Len(test_list) = 1
    /\ SubSeq(test_list[1], 1, Len(run_test)) # run_test
    /\ \E p \in Range(tests_glob) \cap isdir : p \notin Range(test_list)

\* C2 (as claimed): the discriminant list holds ALL exactly once, first,
\* then the platform tag, the triplet tag and the user's discriminants.
C2_AllOnceFirst ==
    AfterCleanup /\ pc # "cleaned" =>
        /\ Len(discs) = 3 + Len(opt_discs)
        /\ discs[1] = "ALL"
        /\ CountOf(discs, "ALL") = 1
        /\ discs[2] = PlatformTag
        /\ discs[3] = TripletTag
        /\ SubSeq(discs, 4, Len(discs)) = opt_discs

\* C3 (as claimed): after the cleanup of an existing directory a second
\* cleanup changes nothing, the directory exists and holds no name ending in
\* one of the four extensions; a missing directory is just created.
C3_NoArtifactLeft ==
    pc = "cleaned" =>
        /\ dir_exists
        /\ \A n \in dir_files : ~HasArtifactExt(n)
        /\ fs0.exists =>
              /\ CleanDirFiles(dir_exists, dir_files) = dir_files
              /\ CleanCwdFiles(dir_exists, cwd_files) = cwd_files
              /\ CleanResults(dir_exists, results) = results
        /\ ~fs0.exists => dir_files = {} /\ cwd_files = fs0.cwd

\* C3 (amended): the same, for the names that do not start with a dot.
C3_NoVisibleArtifactLeft ==
    pc = "cleaned" =>
        /\ dir_exists
        /\ \A n \in dir_files : n[1] # "." => ~HasArtifactExt(n)
        /\ fs0.exists =>
              /\ CleanDirFiles(dir_exists, dir_files) = dir_files
              /\ CleanCwdFiles(dir_exists, cwd_files) = cwd_files
              /\ CleanResults(dir_exists, results) = results
        /\ ~fs0.exists => dir_files = {} /\ cwd_files = fs0.cwd

\* C3 witness: an existing directory that held a results file, one artifact
\* of each extension and an unrelated file was cleaned.
C3_Witness ==
    /\ pc = "cleaned"
    /\ fs0.exists
    /\ {ResultsName, ArtifactDiff, ArtifactExpected, ArtifactOut,
        ArtifactResult, NotesName} \subseteq fs0.files
    /\ NotesName \in dir_files

\* C4 (as claimed): once the cleanup has finished, every results, report,
\* discs and artifact file of the result directory was written by this run.
C4_OnlyCurrentRun ==
    AfterCleanup => \A n \in dir_files : Targeted(n) => n \in written

\* C5 (as claimed): the cleanup removes nothing but the targeted files of
\* the result directory; the current directory is left as it was.
C5_Frame ==
    pc = "cleaned" =>
        /\ cwd_files = fs0.cwd
        /\ \A n \in fs0.files : ~Targeted(n) => n \in dir_files


\* C6: under fair scheduling, whatever the number of tests and their exit
\* statuses, the run ends normally with the discs file and the report
\* written and every test collected.
C6_EventuallyReported ==
    <>(/\ pc = "exited"
       /\ exit_code = 0
       /\ {DiscsName, ReportName} \subseteq written
       /\ \A i \in Tests : collected[i] = 1)

\* C6 witness: the report was written in a run where a test failed.
C6_Witness ==
    /\ pc = "done"
    /\ \E i \in Tests : status[i] = 1
    /\ {DiscsName, ReportName} \subseteq written

\* the handler of the top level has printed its line
ErrorPrinted ==
    \E k \in 1..Len(stdout) : stdout[k].prefix = "ERROR: "

\* C7 (as claimed): a run ended by an assertion failure prints the ERROR
\* line and exits with a nonzero status; a normal run exits with 0.
C7_AssertExitsNonzero ==
    pc = "exited" =>
        IF {DiscsName, ReportName} \subseteq written
        THEN exit_code = 0 /\ ~ErrorPrinted
        ELSE exit_code # 0 /\ ErrorPrinted

\* C8: the launched, uncollected subprocesses never outnumber the job count.
C8_BoundedParallelism ==
    pc = "running" => Cardinality(running) <= mainloop_jobs

\* C8 witness: two jobs allowed, two subprocesses in flight, one finished
\* and one not, and a test still waiting.
C8_Witness ==
    /\ pc = "running"
    /\ mainloop_jobs = 2
    /\ Cardinality(running) = 2
    /\ next_item <= Len(test_list)
    /\ \E i, j \in running : status[i] = -1 /\ status[j] # -1

\* C9: no test is launched or collected twice, and once the main loop has
\* returned each test was launched once, collected once and has exactly one
\* record in the results file, which holds nothing else.
C9_ExactlyOnce ==
    /\ \A i \in DOMAIN launched :
          launched[i] <= 1 /\ collected[i] <= launched[i]
    /\ pc \in {"report", "discs_written", "done", "exited"} =>
          /\ \A i \in Tests : launched[i] = 1 /\ collected[i] = 1
          /\ Len(results) = Len(test_list)
          /\ \A i \in Tests :
                Cardinality({k \in 1..Len(results) :
                                results[k].test = test_list[i]}) = 1

\* C9 witness: the main loop has returned after several tests, one of them
\* failed, collected in another order than launched, over a results file
\* of an earlier run.
C9_Witness ==
    /\ pc = "report"
    /\ Len(test_list) >= 2
    /\ \E i \in Tests : status[i] = 1
    /\ results[1].test # test_list[1]
    /\ ResultsName \in fs0.files

\* C10: the discs file and the report are written only after every test was
\* launched, has finished and was collected, the report after the discs
\* file; no test is launched before the result directory was cleaned and
\* exists.
C10_Order ==
    /\ (DiscsName \in written \/ ReportName \in written) =>
          /\ AllCollected
          /\ \A i \in Tests : status[i] # -1 /\ collected[i] = 1
    /\ ReportName \in written => DiscsName \in written
    /\ (\E i \in DOMAIN launched : launched[i] > 0) =>
          /\ AfterCleanup
          /\ dir_exists
          /\ CleanDirFiles(TRUE, dir_files \ written) = dir_files \ written

\* C10 witness: the report of a run of several tests is written, in a
\* directory that held files of an earlier run.
C10_Witness ==
    /\ pc = "done"
    /\ Len(test_list) >= 2
    /\ fs0.exists
    /\ ArtifactOut \in fs0.files
    /\ {DiscsName, ReportName} \subseteq written

====
